---- MODULE Spec2Model ----
(***************************************************************************)
(* The JavaScript bridge of bch-tx-editor: the module that registers       *)
(* reexports.cashAssemblyToBin and reexports.disassembleBytecodeBCH on     *)
(* window.  Two versions of the bridge are in the sources:                 *)
(*   - src/unnamed/part_000 ("compiler"): one module-level compiler made   *)
(*     by createCompilerBCH, whose configuration.scripts map is written on *)
(*     every call and then compiled with generateBytecode;                 *)
(*   - src/js-reexport/index.js ("direct"): a call of libauth's own        *)
(*     cashAssemblyToBin, whose non-Uint8Array answer is thrown.           *)
(* @bitauth/libauth itself is an imported package.  Its functions are      *)
(* modelled as unknown but deterministic: the first answer to a given      *)
(* argument is any value of the answer's type, and it is remembered in     *)
(* the variable libauth so that the same argument gets the same answer.    *)
(* Strings the bridge builds are sequences of one-character strings;       *)
(* bytes are two-digit hex strings.                                        *)
(***************************************************************************)
EXTENDS Naturals, Sequences, FiniteSets

VARIABLES
    loaded,      \* which version of the bridge the page loaded
    scripts,     \* compiler.configuration.scripts
    operations,  \* compiler.configuration.operations
    libauth,     \* the library's answers so far: a set of <<argument, answer>>
    history      \* the calls made so far, oldest first

vars == <<loaded, scripts, operations, libauth, history>>

----------------------------------------------------------------------------
(* Bounds *)

NumTexts == 2
NumCallers == 2
MaxCalls == 3
MaxErrors == 2

----------------------------------------------------------------------------
(* Values *)

SourceTexts == <<"OP_1", "foo bar", "script", "<0x00>", "">>
Texts == {SourceTexts[i] : i \in 1..NumTexts}
Callers == 1..NumCallers

EmptyMap == <<>>

Bytecodes == {<<>>, <<"51">>}

ParseType == <<"p", "a", "r", "s", "e">>
ResolveType == <<"r", "e", "s", "o", "l", "v", "e">>
ErrorTypes == {ParseType, ResolveType}

Messages == {<<"x">>, <<"y", " ", "z">>}

Success(b) == [success |-> TRUE, bytecode |-> b]
Failure(t, errs) == [success |-> FALSE, errorType |-> t, errors |-> errs]
ErrorOf(m) == [error |-> m]

ErrorLists(n) == UNION {[1..k -> {ErrorOf(m) : m \in Messages}] : k \in 0..n}

\* The answers generateBytecode draws from in Spec: both successes, a failure
\* with one diagnostic and a failure with two.
LibResults ==
    {Success(b) : b \in Bytecodes}
    \cup {Failure(ParseType, <<ErrorOf(<<"x">>)>>),
          Failure(ResolveType, <<ErrorOf(<<"y", " ", "z">>), ErrorOf(<<"x">>)>>)}

\* Every failure within MaxErrors (SpecThrow).
AllFailures == {Failure(t, e) : t \in ErrorTypes, e \in ErrorLists(MaxErrors)}

\* libauth's cashAssemblyToBin answers a Uint8Array or an error string.
Bytes(b) == [isUint8Array |-> TRUE, value |-> b]
ErrorString(s) == [isUint8Array |-> FALSE, value |-> s]
DirectResults == {Bytes(b) : b \in Bytecodes} \cup {ErrorString(<<"e", "r", "r">>)}

Return(v) == [kind |-> "return", value |-> v]
Throw(v) == [kind |-> "throw", value |-> v]

----------------------------------------------------------------------------
(* The library, as the bridge sees it *)

Known(arg) == \E p \in libauth : p[1] = arg

\* The answers the library may give to arg: the remembered one, or any of fresh.
Answers(arg, fresh) ==
    IF Known(arg) THEN {p[2] : p \in {q \in libauth : q[1] = arg}} ELSE fresh

GenerateArg(configuration, request) == <<"generateBytecode", configuration, request>>
AssembleArg(script) == <<"cashAssemblyToBin", script>>

----------------------------------------------------------------------------
(* part_000 *)

Configuration == [scripts |-> scripts, operations |-> operations]

WriteScriptWrongKey(table, script) ==
    [k \in DOMAIN table \cup {script} |-> IF k = script THEN script ELSE table[k]]

WriteScriptOnce(table, script) ==
    IF "script" \in DOMAIN table
    THEN table
    ELSE [k \in DOMAIN table \cup {"script"} |->
             IF k = "script" THEN script ELSE table[k]]

\* compiler.configuration.scripts["script"] = script
WriteScript(table, script) ==
    [k \in DOMAIN table \cup {"script"} |-> IF k = "script" THEN script ELSE table[k]]

\* { data: {}, scriptId: "script" }
Request == [data |-> EmptyMap, scriptId |-> "script"]

MapErrorFirstOnly(errors) ==
    IF errors = <<>> THEN <<>> ELSE <<errors[1].error>>

\* result.errors.map((err) => err.error)
MapError(errors) == [i \in 1..Len(errors) |-> errors[i].error]

\* Array.prototype.join
RECURSIVE Join(_, _)
Join(arr, sep) ==
    IF Len(arr) = 0 THEN <<>>
    ELSE IF Len(arr) = 1 THEN arr[1]
    ELSE arr[1] \o sep \o Join(Tail(arr), sep)

Prefix ==
    <<"C", "a", "s", "h", "A", "s", "s", "e", "m", "b", "l", "y", " ",
      "c", "o", "m", "p", "i", "l", "a", "t", "i", "o", "n", " ">>
Infix == <<" ", "e", "r", "r", "o", "r", ":", " ">>

\* `CashAssembly compilation ${errorType} error: ${errors.map(..).join(' ')}`
ThrowString(result) ==
    Prefix \o result.errorType \o Infix \o Join(MapError(result.errors), <<" ">>)

DeliverAsValue(result) ==
    IF result.success THEN Return(result.bytecode) ELSE Return(ThrowString(result))

\* if (result.success) return result.bytecode; else throw `...`
Deliver(result) ==
    IF result.success THEN Return(result.bytecode) ELSE Throw(ThrowString(result))

\* reexports.cashAssemblyToBin of part_000, called by caller c with script.
CashAssemblyToBin(c, script) ==
    /\ loaded = "compiler"
    /\ Len(history) < MaxCalls
    /\ scripts' = WriteScript(scripts, script)
    /\ operations' = operations
    /\ LET arg == GenerateArg(Configuration', Request)
       IN \E result \in Answers(arg, LibResults) :
            /\ libauth' = libauth \cup {<<arg, result>>}
            /\ history' = Append(history,
                                 [caller |-> c,
                                  script |-> script,
                                  compiled |-> scripts',
                                  result |-> result,
                                  outcome |-> Deliver(result)])
    /\ UNCHANGED loaded

----------------------------------------------------------------------------
(* js-reexport/index.js *)

\* if (result instanceof Uint8Array) return result; else throw result;
DeliverIndex(result) ==
    IF result.isUint8Array THEN Return(result.value) ELSE Throw(result.value)

\* reexports.cashAssemblyToBin of index.js, called by caller c with script.
CashAssemblyToBinIndex(c, script) ==
    /\ loaded = "direct"
    /\ Len(history) < MaxCalls
    /\ LET arg == AssembleArg(script)
       IN \E result \in Answers(arg, DirectResults) :
            /\ libauth' = libauth \cup {<<arg, result>>}
            /\ history' = Append(history,
                                 [caller |-> c,
                                  script |-> script,
                                  compiled |-> scripts,
                                  result |-> result,
                                  outcome |-> DeliverIndex(result)])
    /\ UNCHANGED <<loaded, scripts, operations>>

----------------------------------------------------------------------------
(* Specifications *)

\* createCompilerBCH({ scripts: {}, operations: {} }); nothing called yet.
Init ==
    /\ loaded \in {"compiler", "direct"}
    /\ scripts = EmptyMap
    /\ operations = EmptyMap
    /\ libauth = {}
    /\ history = <<>>

Next ==
    \/ \E c \in Callers, script \in Texts : CashAssemblyToBin(c, script)
    \/ \E c \in Callers, script \in Texts : CashAssemblyToBinIndex(c, script)

Spec == Init /\ [][Next]_vars

\* One text's answer is fixed beforehand to any failure within MaxErrors, and
\* one call is made: the thrown string for every errors sequence.
InitThrow ==
    /\ loaded = "compiler"
    /\ scripts = EmptyMap
    /\ operations = EmptyMap
    /\ history = <<>>
    /\ \E t \in Texts, f \in AllFailures :
         libauth = {<<GenerateArg([scripts |-> WriteScript(EmptyMap, t),
                                   operations |-> EmptyMap], Request), f>>}

NextThrow ==
    \E c \in Callers, script \in Texts :
        history = <<>> /\ CashAssemblyToBin(c, script)

SpecThrow == InitThrow /\ [][NextThrow]_vars

----------------------------------------------------------------------------
(* Claims *)

Calls == DOMAIN history

\* C1 as stated: every call, failing ones included, ends by handing the caller
\* a value; no compilation failure is delivered as a throw.
C1_AlwaysAValue == \A i \in Calls : history[i].outcome.kind = "return"

\* C1 (amended): a call is delivered as a throw exactly when the library
\* reported a failure, and a successful call returns the library's bytes; the
\* bridge never returns a failure as a value.
C1_FailureIsThrown ==
    \A i \in Calls :
        LET e == history[i]
            failed == IF loaded = "compiler" THEN ~e.result.success
                      ELSE ~e.result.isUint8Array
        IN /\ (e.outcome.kind = "throw") <=> failed
           /\ e.outcome.kind \in {"return", "throw"}
           /\ ~failed => e.outcome.value \in Bytecodes

C1_Witness ==
    \E i \in Calls :
        /\ loaded = "compiler"
        /\ ~history[i].result.success
        /\ history[i].outcome.kind = "throw"

RECURSIVE OffsetOf(_, _)
OffsetOf(errors, i) ==
    IF i = 1 THEN 0 ELSE OffsetOf(errors, i - 1) + Len(errors[i - 1].error) + 1

\* C2: when a compilation fails with n >= 1 diagnostics, the thrown string is
\* the fixed prefix, the error-type tag, " error: ", and then the n messages in
\* the order of the errors sequence, each once, separated by one space, with
\* nothing before, between or after them.
C2_EveryMessageInOrder ==
    \A i \in Calls :
        LET e == history[i]
            errors == e.result.errors
            n == Len(errors)
            tag == e.result.errorType
            str == e.outcome.value
            base == Len(Prefix) + Len(tag) + Len(Infix)
        IN (loaded = "compiler" /\ ~e.result.success /\ n >= 1) =>
             /\ e.outcome.kind = "throw"
             /\ Len(str) = base + OffsetOf(errors, n) + Len(errors[n].error)
             /\ SubSeq(str, 1, Len(Prefix)) = Prefix
             /\ SubSeq(str, Len(Prefix) + 1, Len(Prefix) + Len(tag)) = tag
             /\ SubSeq(str, Len(Prefix) + Len(tag) + 1, base) = Infix
             /\ \A k \in 1..n :
                  SubSeq(str, base + OffsetOf(errors, k) + 1,
                         base + OffsetOf(errors, k) + Len(errors[k].error))
                      = errors[k].error
             /\ \A k \in 1..(n - 1) :
                  str[base + OffsetOf(errors, k) + Len(errors[k].error) + 1] = " "

C2_Witness ==
    \E i \in Calls :
        /\ ~history[i].result.success
        /\ Len(history[i].result.errors) = 2
        /\ history[i].result.errors[1] # history[i].result.errors[2]
        /\ history[i].outcome.kind = "throw"

\* C3 as stated: a call leaves the scripts map and the operations map as they
\* were.
C3_TableUnchanged == [][scripts' = scripts /\ operations' = operations]_vars

\* C3 (amended): a call leaves the operations map and every scripts entry other
\* than "script" as they were; the part_000 bridge sets scripts["script"] to the
\* call's source text, and the index.js bridge touches no table.
C3_OnlyScriptEntryWritten ==
    [][/\ operations' = operations
       /\ loaded = "direct" => scripts' = scripts
       /\ loaded = "compiler" =>
            /\ DOMAIN scripts' = DOMAIN scripts \cup {"script"}
            /\ scripts'["script"] = history'[Len(history')].script
            /\ \A k \in DOMAIN scripts \ {"script"} : scripts'[k] = scripts[k]]_vars

C3_Witness ==
    /\ loaded = "compiler"
    /\ Len(history) >= 2
    /\ history[Len(history) - 1].script # history[Len(history)].script
    /\ scripts["script"] = history[Len(history)].script

\* C4: two calls with the same source text have the same outcome (the same
\* bytes returned, or the same value thrown), whatever calls ran before or
\* between them.
C4_SameTextSameOutcome ==
    \A i, j \in Calls :
        history[i].script = history[j].script =>
            history[i].outcome = history[j].outcome

C4_Witness ==
    \E i, k, j \in Calls :
        /\ i < k /\ k < j
        /\ history[i].script = history[j].script
        /\ history[k].script # history[i].script
        /\ history[k].outcome.kind # history[i].outcome.kind

\* C10: whenever generateBytecode runs for a call, scripts["script"] exists
\* and is that call's own source text, for any order of calls by any callers;
\* the scripts map holds no key other than "script" and the operations map is
\* empty.
C10_OwnTextCompiled ==
    /\ loaded = "compiler" =>
         \A i \in Calls :
             /\ "script" \in DOMAIN history[i].compiled
             /\ history[i].compiled["script"] = history[i].script
    /\ DOMAIN scripts \subseteq {"script"}
    /\ operations = EmptyMap

C10_Witness ==
    \E i \in Calls :
        /\ loaded = "compiler"
        /\ i + 1 \in Calls
        /\ history[i].caller # history[i + 1].caller
        /\ history[i].script # history[i + 1].script
        /\ history[i + 1].compiled["script"] = history[i + 1].script

====
